---- MODULE Spec2Model ----
(***************************************************************************)
(* Model of the media organiser of src/main.go: processFiles walks the     *)
(* source directory in lexical order, fingerprints every image and video   *)
(* file, drops duplicates, resolves a date, allocates a name from a        *)
(* per-timestamp counter and moves the file below the target directory.    *)
(*                                                                         *)
(* A file name is a sequence of one-character strings, a path a sequence   *)
(* of names (its elements), so that the lexical order of the walk, the     *)
(* extension test and the formatting of the destination name are computed  *)
(* character by character as the Go code computes them.                    *)
(***************************************************************************)
EXTENDS Integers, Sequences, FiniteSets, TLC

(***************************************************************************)
(* Bounds of the model.                                                    *)
(***************************************************************************)
\* number of image/video files in the source directory when the run starts
MaxFiles == 3
\* number of distinct file contents (byte strings) the files are drawn from
MaxContent == 3

(***************************************************************************)
(* Characters and strings.                                                 *)
(***************************************************************************)
Lowers == <<"a", "b", "c", "d", "e", "f", "g", "h", "i", "j", "k", "l", "m",
            "n", "o", "p", "q", "r", "s", "t", "u", "v", "w", "x", "y", "z">>
Uppers == <<"A", "B", "C", "D", "E", "F", "G", "H", "I", "J", "K", "L", "M",
            "N", "O", "P", "Q", "R", "S", "T", "U", "V", "W", "X", "Y", "Z">>
DigitChar == <<"0", "1", "2", "3", "4", "5", "6", "7", "8", "9">>

\* the characters in byte order: '-' < '.' < digits < upper case < lower case
Alphabet == <<"-", ".">> \o DigitChar \o Uppers \o Lowers

CharSet == {Alphabet[i] : i \in 1..Len(Alphabet)}

\* the rank of a character in byte order
Ord == [c \in CharSet |-> CHOOSE i \in 1..Len(Alphabet) : Alphabet[i] = c]

\* strings.ToLower, one character
LowerChar == [c \in CharSet |->
                IF \E i \in 1..Len(Uppers) : Uppers[i] = c
                THEN Lowers[CHOOSE i \in 1..Len(Uppers) : Uppers[i] = c]
                ELSE c]

\* strings.ToLower
ToLower(s) == [i \in 1..Len(s) |-> LowerChar[s[i]]]

\* string comparison of Go (bytewise), as sort.Strings uses it in filepath.Walk
RECURSIVE StrLess(_, _)
StrLess(a, b) ==
    IF b = <<>> THEN FALSE
    ELSE IF a = <<>> THEN TRUE
    ELSE IF Ord[Head(a)] # Ord[Head(b)] THEN Ord[Head(a)] < Ord[Head(b)]
    ELSE StrLess(Tail(a), Tail(b))

\* the names of S in increasing order
RECURSIVE SortNames(_)
SortNames(S) ==
    IF S = {} THEN <<>>
    ELSE LET m == CHOOSE x \in S : \A y \in S \ {x} : StrLess(x, y)
         IN  <<m>> \o SortNames(S \ {m})

\* filepath.Ext of a name: the suffix that starts at the last dot, or empty
RECURSIVE ExtFrom(_, _)
ExtFrom(name, i) ==
    IF i = 0 THEN <<>>
    ELSE IF name[i] = "." THEN SubSeq(name, i, Len(name))
    ELSE ExtFrom(name, i - 1)

Last(s) == s[Len(s)]
Front(s) == SubSeq(s, 1, Len(s) - 1)

\* strings.ToLower(filepath.Ext(path))
Ext(path) == ToLower(ExtFrom(Last(path), Len(Last(path))))

ImageExts == { <<".", "j", "p", "g">>, <<".", "j", "p", "e", "g">>,
               <<".", "p", "n", "g">>, <<".", "g", "i", "f">>,
               <<".", "b", "m", "p">>, <<".", "t", "i", "f", "f">>,
               <<".", "w", "e", "b", "p">> }
VideoExts == { <<".", "m", "p", "4">>, <<".", "a", "v", "i">>,
               <<".", "m", "o", "v">>, <<".", "m", "k", "v">>,
               <<".", "v", "o", "b">>, <<".", "f", "l", "v">>,
               <<".", "w", "m", "v">>, <<".", "w", "e", "b", "m">>,
               <<".", "m", "p", "g">> }

isImageFile(ext) == ext \in ImageExts
isVideoFile(ext) == ext \in VideoExts

(***************************************************************************)
(* Timestamps and their formatting (time.Time.Format).                     *)
(***************************************************************************)
T1 == [year |-> 2023, month |-> 5, day |-> 1, hour |-> 10, min |-> 0, sec |-> 0]
T2 == [year |-> 2022, month |-> 1, day |-> 15, hour |-> 8, min |-> 30, sec |-> 0]
TNow == [year |-> 2026, month |-> 11, day |-> 3, hour |-> 12, min |-> 13, sec |-> 14]

\* time.Time{}, returned with an error
ZeroTime == [year |-> 1, month |-> 1, day |-> 1, hour |-> 0, min |-> 0, sec |-> 0]

\* the result of a date provider: a date, or an error (no EXIF date, stat error)
DateOk(t) == [date |-> t, err |-> FALSE]
NoDate == [date |-> ZeroTime, err |-> TRUE]

\* the values time.Now() returns during a run
NowTimes == {TNow}

\* decimal digits of a natural number
RECURSIVE Digits(_)
Digits(n) ==
    IF n < 10 THEN <<DigitChar[n + 1]>>
    ELSE Digits(n \div 10) \o <<DigitChar[(n % 10) + 1]>>

\* zero padding to a minimal width (%02d, and the fixed-width fields of Format)
RECURSIVE ZeroPad(_, _)
ZeroPad(s, w) == IF Len(s) >= w THEN s ELSE ZeroPad(<<"0">> \o s, w)

\* the times a run meets; what Format makes of each is computed once
Times == {T1, T2, ZeroTime} \cup NowTimes

\* Format("2006"), Format("01") and Format("02-01-2006-15-04-05") of every time
YearTable == [t \in Times |-> ZeroPad(Digits(t.year), 4)]
MonthTable == [t \in Times |-> ZeroPad(Digits(t.month), 2)]
StampTable ==
    [t \in Times |->
        ZeroPad(Digits(t.day), 2) \o <<"-">> \o ZeroPad(Digits(t.month), 2) \o <<"-">>
        \o ZeroPad(Digits(t.year), 4) \o <<"-">> \o ZeroPad(Digits(t.hour), 2) \o <<"-">>
        \o ZeroPad(Digits(t.min), 2) \o <<"-">> \o ZeroPad(Digits(t.sec), 2)]

FormatYear(t) == YearTable[t]
FormatMonth(t) == MonthTable[t]

\* fileDate.Format("02-01-2006-15-04-05")
FormatStamp(t) == StampTable[t]

\* (mutant) the collision index is printed with %d
NewFileNameUnpadded(timestampStr, counter, ext) ==
    IF counter > 0
    THEN timestampStr \o <<"-">> \o Digits(counter) \o ext
    ELSE timestampStr \o ext

\* the destination file name for a timestamp string, a collision index and an extension
NewFileName(timestampStr, counter, ext) ==
    IF counter > 0
    THEN timestampStr \o <<"-">> \o ZeroPad(Digits(counter), 2) \o ext
    ELSE timestampStr \o ext

(***************************************************************************)
(* The file system: files maps the path of every regular file to its       *)
(* content and modification time, dirs is the set of directories.          *)
(***************************************************************************)
VARIABLES
    files,              \* path -> [content, mtime]
    dirs,               \* the directories that exist
    sourceDir,          \* processFiles' arguments
    targetDir,
    dryRun,
    fileHashes,         \* hash -> path of the first file seen with it
    timestampCounter,   \* timestamp string -> last collision index handed out
    stack,              \* filepath.Walk: per open directory, the names still to visit
    ret,                \* what processFiles has returned, or Running
    out,                \* the lines printed, in order
    hashed,             \* the calls of calculateFileHash, in order: [path, hash]
    named,              \* the names allocated, in order
    move,               \* the call of moveFile the handler made in the last step,
                        \* [src, dest, how], or NoMove
    files0,             \* the file system when the run started
    dirs0,
    run1                \* what an earlier run on the same inputs did, or NoRun

vars == <<files, dirs, sourceDir, targetDir, dryRun, fileHashes, timestampCounter,
          stack, ret, out, hashed, named, move, files0, dirs0, run1>>

\* the content of a file that was created and not (completely) written
Truncated == 0

\* the EXIF date-taken stored in a content: a property of the bytes
ExifOf(content) == IF content = Truncated \/ content = 2 THEN NoDate ELSE DateOk(T1)

Prefixes(path) == {SubSeq(path, 1, i) : i \in 1..Len(path)}

IsPrefix(d, p) == Len(d) <= Len(p) /\ SubSeq(p, 1, Len(d)) = d

\* the names in directory d (readDirNames of filepath.Walk), sorted
Children(f, ds, d) ==
    {Last(p) : p \in {q \in DOMAIN f \cup ds : Len(q) = Len(d) + 1 /\ IsPrefix(d, q)}}

ReadDirNames(f, ds, d) == SortNames(Children(f, ds, d))

\* os.MkdirAll: the outcomes [dirs, ok]. It succeeds at once when the directory
\* exists, fails at an element that is a file, and can fail at any directory it
\* has to create, leaving the ones created before.
MkdirAllFail(f, ds, path) ==
    {[dirs |-> ds \cup {q \in Prefixes(path) : Len(q) < Len(b)}, ok |-> FALSE] :
        b \in {q \in Prefixes(path) :
                 /\ q \notin ds
                 /\ \A r \in Prefixes(path) : Len(r) < Len(q) => r \notin DOMAIN f}}

MkdirAll(f, ds, path) ==
    IF path \in ds THEN {[dirs |-> ds, ok |-> TRUE]}
    ELSE IF \E q \in Prefixes(path) : q \in DOMAIN f THEN MkdirAllFail(f, ds, path)
    ELSE {[dirs |-> ds \cup Prefixes(path), ok |-> TRUE]} \cup MkdirAllFail(f, ds, path)

\* os.Remove of a file
Remove(f, path) == [p \in DOMAIN f \ {path} |-> f[p]]

\* os.Rename of a file: replaces a file at dest
Rename(f, src, dest) ==
    IF src = dest THEN f
    ELSE [p \in (DOMAIN f \ {src}) \cup {dest} |-> IF p = dest THEN f[src] ELSE f[p]]

\* os.Create(dest) of copyFile: dest exists and is empty
Create(f, dest, now) ==
    [p \in DOMAIN f \cup {dest} |->
        IF p = dest THEN [content |-> Truncated, mtime |-> now] ELSE f[p]]

\* copyFile, the outcomes [files, err]: open and create can fail, io.Copy can
\* fail after create (dest is left truncated); src is read after dest was created
CopyFile(f, src, dest, now) ==
    LET created == Create(f, dest, now)
        copied  == [created EXCEPT ![dest].content = created[src].content]
    IN  {[files |-> f, err |-> TRUE, how |-> "open"],
         [files |-> created, err |-> TRUE, how |-> "copy"],
         [files |-> copied, err |-> FALSE, how |-> "copied"]}

\* moveFile, the outcomes [files, dirs, err, how]; how is the statement that
\* returned: "mkdir", "rename", "open" or "copy" (copyFile failed before or after
\* os.Create), "remove" (os.Remove of the source failed), "copied"
MoveFile(f, ds, src, dest, now) ==
    LET mks == MkdirAll(f, ds, Front(dest))
    IN  {[files |-> f, dirs |-> mk.dirs, err |-> TRUE, how |-> "mkdir"] :
            mk \in {m \in mks : ~m.ok}}
        \cup UNION {
            \* os.Rename succeeds
            (IF dest \in mk.dirs THEN {}
             ELSE {[files |-> Rename(f, src, dest), dirs |-> mk.dirs, err |-> FALSE,
                    how |-> "rename"]})
            \cup
            \* os.Rename fails: copy, then remove the source
            UNION {
                IF c.err THEN {[files |-> c.files, dirs |-> mk.dirs, err |-> TRUE,
                                how |-> c.how]}
                ELSE {[files |-> c.files, dirs |-> mk.dirs, err |-> TRUE,
                       how |-> "remove"],
                      [files |-> Remove(c.files, src), dirs |-> mk.dirs, err |-> FALSE,
                       how |-> "copied"]}
                : c \in CopyFile(f, src, dest, now)}
            : mk \in {m \in mks : m.ok}}

\* calculateFileHash: SHA-256 is taken to be collision free, so that a digest is
\* identified with the content it was computed from
calculateFileHash(f, path) == f[path].content

\* getImageDate, getFileCreationDate: [date, err]; ioErr is a failing os.Open or
\* os.Stat
getImageDate(f, path, ioErr) == IF ioErr THEN NoDate ELSE ExifOf(f[path].content)
getFileCreationDate(f, path, ioErr) == IF ioErr THEN NoDate ELSE DateOk(f[path].mtime)
getVideoDate(f, path, ioErr) == getFileCreationDate(f, path, ioErr)

\* getFileDate: [date, err]
getFileDate(f, path, ioErr) ==
    IF isImageFile(Ext(path)) THEN getImageDate(f, path, ioErr)
    ELSE IF isVideoFile(Ext(path)) THEN getVideoDate(f, path, ioErr)
    ELSE getFileCreationDate(f, path, ioErr)

(***************************************************************************)
(* The inputs of a run.                                                    *)
(***************************************************************************)
NameS == <<"s">>
NameT == <<"t">>
NameO == <<"o">>
NameImages == <<"i", "m", "a", "g", "e", "s">>
NameVideos == <<"v", "i", "d", "e", "o", "s">>
ExtJpg == <<".", "j", "p", "g">>

\* the image and video files of the source directory are the first files of this list
FileNames == << <<"a", ".", "j", "p", "g">>, <<"z", ".", "m", "p", "4">>,
                <<"b", ".", "J", "P", "G">>, <<"y", ".", "p", "n", "g">>,
                <<"c", ".", "m", "o", "v">> >>
\* a file that is neither
OtherName == <<"n", ".", "t", "x", "t">>

\* the source and the target directory: apart, the target inside the source, the same
Apart  == [source |-> <<NameS>>, target |-> <<NameT>>]
Inside == [source |-> <<NameS>>, target |-> <<NameS, NameO>>]
Same   == [source |-> <<NameS>>, target |-> <<NameS>>]

\* the directory of the images of T1
LeafDir(target) == target \o <<NameImages, FormatYear(T1), FormatMonth(T1)>>

\* the content of the files that are neither images nor videos
OtherContent == MaxContent + 1

\* the content of the i-th file of an earlier run: the earlier run moved its
\* files out of the source, the source directory holds other contents now
EarlierContent(i) == MaxContent + 2 + i

\* what an earlier run left below the target: n images with the date T1, named
\* as processFiles names them, and a file it does not recognise beside them
EarlierFiles(target, n) ==
    [p \in {LeafDir(target) \o <<NewFileName(FormatStamp(T1), i, ExtJpg)>> : i \in 0..(n - 1)}
           \cup (IF n > 0 THEN {LeafDir(target) \o <<OtherName>>} ELSE {}) |->
        IF Last(p) = OtherName THEN [content |-> OtherContent, mtime |-> T2]
        ELSE [content |-> EarlierContent(CHOOSE i \in 0..(n - 1) :
                            Last(p) = NewFileName(FormatStamp(T1), i, ExtJpg)),
              mtime |-> T2]]

EarlierDirs(target, n) == IF n > 0 THEN Prefixes(LeafDir(target)) ELSE {}

\* the layouts and what the target holds, as they are combined
Scenarios == { [layout |-> Apart, earlier |-> 0], [layout |-> Apart, earlier |-> 1],
               [layout |-> Inside, earlier |-> 0], [layout |-> Same, earlier |-> 2] }

Min(a, b) == IF a < b THEN a ELSE b

\* the attributes the i-th file of FileNames can have: a content among the first
\* i (the same as an earlier file's, or another one), and for a video one of two
\* modification times
FileChoices(i) ==
    IF isVideoFile(ToLower(ExtFrom(FileNames[i], Len(FileNames[i]))))
    THEN [content : 1..Min(i, MaxContent), mtime : {T1, T2}]
    ELSE [content : 1..Min(i, MaxContent), mtime : {T2}]

\* the source directories: the first k files of FileNames (k up to MaxFiles), and
\* OtherName
SourceTrees(source) ==
    UNION { { [p \in {source \o <<FileNames[i]>> : i \in 1..k} \cup {source \o <<OtherName>>} |->
                 IF Last(p) = OtherName THEN [content |-> OtherContent, mtime |-> T2]
                 ELSE attr[CHOOSE i \in 1..k : FileNames[i] = Last(p)]] :
              attr \in {a \in [1..k -> [content : 1..MaxContent, mtime : {T1, T2}]] :
                          \A i \in 1..k : a[i] \in FileChoices(i)} }
          : k \in 0..Min(MaxFiles, Len(FileNames)) }

(***************************************************************************)
(* filepath.Walk.                                                          *)
(***************************************************************************)
Running == "running"
RetNil == "nil"

\* the directories whose names are all visited are left
RECURSIVE Normalise(_)
Normalise(s) ==
    IF s = <<>> THEN s
    ELSE IF Last(s).names = <<>> THEN Normalise(Front(s))
    ELSE s

\* the entry Walk visits next
CurPath == Last(stack).dir \o <<Head(Last(stack).names)>>

\* the walk after the current entry
Rest == [stack EXCEPT ![Len(stack)].names = Tail(@)]

\* the handler returned nil: Walk goes on, and returns nil after the last entry
Continue(s) ==
    /\ stack' = Normalise(s)
    /\ ret' = IF Normalise(s) = <<>> THEN RetNil ELSE Running

\* (mutant) the error of the handler is dropped
AbortIgnored(e) ==
    /\ stack' = Normalise([stack EXCEPT ![Len(stack)].names = Tail(@)])
    /\ ret' = IF stack' = <<>> THEN "nil" ELSE "running"

\* the handler returned an error: Walk returns it
Abort(e) ==
    /\ stack' = stack
    /\ ret' = e

\* the handler did not call moveFile
NoMove == [src |-> <<>>, dest |-> <<>>, how |-> "none"]

\* no earlier run
NoRun == [ret |-> Running, dryRun |-> FALSE, out |-> <<>>, named |-> <<>>]

Init ==
    /\ \E sc \in Scenarios :
         /\ sourceDir = sc.layout.source
         /\ targetDir = sc.layout.target
         /\ \E tree \in SourceTrees(sc.layout.source) :
              files = EarlierFiles(sc.layout.target, sc.earlier) @@ tree
         /\ dirs = {sc.layout.source, sc.layout.target}
                   \cup Prefixes(sc.layout.source) \cup Prefixes(sc.layout.target)
                   \cup EarlierDirs(sc.layout.target, sc.earlier)
    /\ dryRun \in BOOLEAN
    /\ fileHashes = <<>>
    /\ timestampCounter = <<>>
    /\ stack = <<[dir |-> Front(sourceDir), names |-> <<Last(sourceDir)>>]>>
    /\ ret = Running
    /\ out = <<>>
    /\ hashed = <<>>
    /\ named = <<>>
    /\ move = NoMove
    /\ files0 = files
    /\ dirs0 = dirs
    /\ run1 = NoRun

(***************************************************************************)
(* The handler of processFiles, one action per way through it.             *)
(***************************************************************************)
\* (mutant) the map forgets what it held
PutFresh(m, k, v) == [x \in {k} |-> v]

\* m[k] = v of a Go map
Put(m, k, v) == [x \in DOMAIN m \cup {k} |-> IF x = k THEN v ELSE m[x]]

\* a printed line
Line(kind, path, arg) == [kind |-> kind, path |-> path, arg |-> arg]

\* (mutant) the extension is not tested
RecognisedAll(path) == TRUE

\* isImageFile(ext) || isVideoFile(ext)
Recognised(path) == isImageFile(Ext(path)) \/ isVideoFile(Ext(path))

\* what calculateFileHash returns with an error
NoHash == -1

\* a successful call of calculateFileHash
Hashed(path) == [path |-> path, hash |-> calculateFileHash(files, path)]

\* the handler is called on a regular file
AtFile == ret = Running /\ CurPath \in DOMAIN files

\* (mutant) no hash counts as seen
IsDuplicateNever(hash) == FALSE

\* the hash is in fileHashes
IsDuplicate(hash) == hash \in DOMAIN fileHashes

\* the handler is called on an image or video whose hash is new
AtNewFile ==
    /\ AtFile
    /\ Recognised(CurPath)
    /\ ~IsDuplicate(calculateFileHash(files, CurPath))

\* (mutant) the time getFileDate returns with its error is kept
FileDateNoFallback(path, ioErr, now) == getFileDate(files, path, ioErr).date

\* fileDate: the date of getFileDate, or time.Now() when it fails
FileDate(path, ioErr, now) ==
    IF getFileDate(files, path, ioErr).err THEN now
    ELSE getFileDate(files, path, ioErr).date

\* (mutant) the failure of getFileDate is not printed
DateLinesNone(path, ioErr) == <<>>

\* the line printed when getFileDate fails
DateLines(path, ioErr) ==
    IF getFileDate(files, path, ioErr).err
    THEN <<Line("date-error", path, <<>>)>>
    ELSE <<>>

\* (mutant) every file goes below images
SubDirImages(path, fileDate) ==
    targetDir \o <<NameImages, FormatYear(fileDate), FormatMonth(fileDate)>>

\* subDir
SubDir(path, fileDate) ==
    targetDir \o <<IF isImageFile(Ext(path)) THEN NameImages ELSE NameVideos,
                   FormatYear(fileDate), FormatMonth(fileDate)>>

\* (mutant) the stored index is not looked at
NextCounterZero(timestampStr) == 0

\* (mutant) an index is left out
NextCounterTwo(timestampStr) ==
    IF timestampStr \in DOMAIN timestampCounter
    THEN timestampCounter[timestampStr] + 2
    ELSE 0

\* counter: 0 for a new timestamp string, else one more than the one stored
NextCounter(timestampStr) ==
    IF timestampStr \in DOMAIN timestampCounter
    THEN timestampCounter[timestampStr] + 1
    ELSE 0

\* newPath
NewPath(path, fileDate) ==
    SubDir(path, fileDate)
    \o <<NewFileName(FormatStamp(fileDate), NextCounter(FormatStamp(fileDate)), Ext(path))>>

\* the name allocated to path
Allocation(path, fileDate) ==
    [path |-> path, date |-> fileDate, stamp |-> FormatStamp(fileDate),
     counter |-> NextCounter(FormatStamp(fileDate)), newPath |-> NewPath(path, fileDate)]

\* Walk visits a directory: the handler returns nil, Walk reads the names
WalkDir ==
    /\ ret = Running
    /\ CurPath \in dirs
    /\ Continue(Append(Rest, [dir |-> CurPath, names |-> ReadDirNames(files, dirs, CurPath)]))
    /\ UNCHANGED <<files, dirs, sourceDir, targetDir, dryRun, fileHashes,
                   timestampCounter, out, hashed, named, files0, dirs0, run1>>
    /\ move' = NoMove

\* Walk cannot lstat the entry or read the directory: the handler returns the error
WalkError ==
    /\ ret = Running
    /\ Abort("walk")
    /\ UNCHANGED <<files, dirs, sourceDir, targetDir, dryRun, fileHashes,
                   timestampCounter, out, hashed, named, files0, dirs0, run1>>
    /\ move' = NoMove

\* a file that is neither an image nor a video
SkipOther ==
    /\ AtFile
    /\ ~Recognised(CurPath)
    /\ Continue(Rest)
    /\ UNCHANGED <<files, dirs, sourceDir, targetDir, dryRun, fileHashes,
                   timestampCounter, out, hashed, named, files0, dirs0, run1>>
    /\ move' = NoMove

\* calculateFileHash fails
HashError ==
    /\ AtFile
    /\ Recognised(CurPath)
    /\ hashed' = Append(hashed, [path |-> CurPath, hash |-> NoHash])
    /\ Abort("hash")
    /\ UNCHANGED <<files, dirs, sourceDir, targetDir, dryRun, fileHashes,
                   timestampCounter, out, named, files0, dirs0, run1>>
    /\ move' = NoMove

\* the hash was seen: the file is reported and, unless dry-run, removed
Duplicate ==
    /\ AtFile
    /\ Recognised(CurPath)
    /\ IsDuplicate(calculateFileHash(files, CurPath))
    /\ hashed' = Append(hashed, Hashed(CurPath))
    /\ LET line == Line("duplicate", CurPath, fileHashes[calculateFileHash(files, CurPath)])
       IN  \/ /\ dryRun
              /\ out' = Append(out, line)
              /\ files' = files
           \/ /\ ~dryRun
              /\ out' = out \o <<line, Line("deleted", CurPath, <<>>)>>
              /\ files' = Remove(files, CurPath)
           \/ /\ ~dryRun
              /\ out' = out \o <<line, Line("delete-error", CurPath, <<>>)>>
              /\ files' = files
    /\ Continue(Rest)
    /\ UNCHANGED <<dirs, sourceDir, targetDir, dryRun, fileHashes,
                   timestampCounter, named, files0, dirs0, run1>>
    /\ move' = NoMove

\* a new file, and os.MkdirAll(subDir) fails
MkdirError ==
    /\ AtNewFile
    /\ \E ioErr \in BOOLEAN, now \in NowTimes :
         \E mk \in MkdirAll(files, dirs, SubDir(CurPath, FileDate(CurPath, ioErr, now))) :
            /\ ~mk.ok
            /\ dirs' = mk.dirs
            /\ out' = out \o DateLines(CurPath, ioErr)
    /\ hashed' = Append(hashed, Hashed(CurPath))
    /\ fileHashes' = Put(fileHashes, calculateFileHash(files, CurPath), CurPath)
    /\ Abort("mkdir")
    /\ UNCHANGED <<files, sourceDir, targetDir, dryRun, timestampCounter, named,
                   files0, dirs0, run1>>
    /\ move' = NoMove

\* a new file in a dry run: the name is allocated and the move reported
PlanMove ==
    /\ AtNewFile
    /\ dryRun
    /\ \E ioErr \in BOOLEAN, now \in NowTimes :
         LET fileDate == FileDate(CurPath, ioErr, now)
             a == Allocation(CurPath, fileDate)
         IN  \E mk \in MkdirAll(files, dirs, SubDir(CurPath, fileDate)) :
                /\ mk.ok
                /\ dirs' = mk.dirs
                /\ timestampCounter' = Put(timestampCounter, a.stamp, a.counter)
                /\ named' = Append(named, a)
                /\ out' = out \o DateLines(CurPath, ioErr)
                              \o <<Line("dry-run", CurPath, a.newPath)>>
    /\ hashed' = Append(hashed, Hashed(CurPath))
    /\ fileHashes' = Put(fileHashes, calculateFileHash(files, CurPath), CurPath)
    /\ Continue(Rest)
    /\ UNCHANGED <<files, sourceDir, targetDir, dryRun, files0, dirs0, run1>>
    /\ move' = NoMove

\* a new file: the name is allocated and moveFile succeeds
MoveAndRename ==
    /\ AtNewFile
    /\ ~dryRun
    /\ \E ioErr \in BOOLEAN, now \in NowTimes :
         LET fileDate == FileDate(CurPath, ioErr, now)
             a == Allocation(CurPath, fileDate)
         IN  \E mk \in MkdirAll(files, dirs, SubDir(CurPath, fileDate)) :
                /\ mk.ok
                /\ \E mv \in MoveFile(files, mk.dirs, CurPath, a.newPath, now) :
                      /\ ~mv.err
                      /\ files' = mv.files
                      /\ dirs' = mv.dirs
                      /\ move' = [src |-> CurPath, dest |-> a.newPath, how |-> mv.how]
                /\ timestampCounter' = Put(timestampCounter, a.stamp, a.counter)
                /\ named' = Append(named, a)
                /\ out' = out \o DateLines(CurPath, ioErr)
                              \o <<Line("moved", CurPath, a.newPath)>>
    /\ hashed' = Append(hashed, Hashed(CurPath))
    /\ fileHashes' = Put(fileHashes, calculateFileHash(files, CurPath), CurPath)
    /\ Continue(Rest)
    /\ UNCHANGED <<sourceDir, targetDir, dryRun, files0, dirs0, run1>>

\* a new file: the name is allocated and moveFile fails
MoveError ==
    /\ AtNewFile
    /\ ~dryRun
    /\ \E ioErr \in BOOLEAN, now \in NowTimes :
         LET fileDate == FileDate(CurPath, ioErr, now)
             a == Allocation(CurPath, fileDate)
         IN  \E mk \in MkdirAll(files, dirs, SubDir(CurPath, fileDate)) :
                /\ mk.ok
                /\ \E mv \in MoveFile(files, mk.dirs, CurPath, a.newPath, now) :
                      /\ mv.err
                      /\ files' = mv.files
                      /\ dirs' = mv.dirs
                      /\ move' = [src |-> CurPath, dest |-> a.newPath, how |-> mv.how]
                /\ timestampCounter' = Put(timestampCounter, a.stamp, a.counter)
                /\ named' = Append(named, a)
                /\ out' = out \o DateLines(CurPath, ioErr)
    /\ hashed' = Append(hashed, Hashed(CurPath))
    /\ fileHashes' = Put(fileHashes, calculateFileHash(files, CurPath), CurPath)
    /\ Abort("move")
    /\ UNCHANGED <<sourceDir, targetDir, dryRun, files0, dirs0, run1>>

Next ==
    \/ WalkDir
    \/ WalkError
    \/ SkipOther
    \/ HashError
    \/ Duplicate
    \/ MkdirError
    \/ PlanMove
    \/ MoveAndRename
    \/ MoveError

Spec == Init /\ [][Next]_vars

(***************************************************************************)
(* Two runs on the same inputs: a dry run, and when it has returned nil, a *)
(* run with dry-run off that starts from the same file system. The runs    *)
(* are the ones in which nothing fails in the file system: Walk,           *)
(* calculateFileHash, os.MkdirAll, os.Rename and os.Remove succeed, and a  *)
(* date is missing only where the image holds none.                        *)
(***************************************************************************)
\* the handler's step met no failure of the file system
NoFailure ==
    /\ move' # NoMove => move'.how = "rename"
    /\ \A l \in (Len(out) + 1)..Len(out') :
         /\ out'[l].kind # "delete-error"
         /\ out'[l].kind = "date-error" =>
              /\ isImageFile(Ext(out'[l].path))
              /\ ExifOf(files[out'[l].path].content).err

DuplicateOk == Duplicate /\ NoFailure
PlanMoveOk == PlanMove /\ NoFailure
MoveAndRenameOk == MoveAndRename /\ NoFailure

Restart ==
    /\ ret = RetNil
    /\ run1 = NoRun
    /\ run1' = [ret |-> ret, dryRun |-> dryRun, out |-> out, named |-> named]
    /\ dryRun' = ~dryRun
    /\ files' = files0
    /\ dirs' = dirs0
    /\ fileHashes' = <<>>
    /\ timestampCounter' = <<>>
    /\ stack' = <<[dir |-> Front(sourceDir), names |-> <<Last(sourceDir)>>]>>
    /\ ret' = Running
    /\ out' = <<>>
    /\ hashed' = <<>>
    /\ named' = <<>>
    /\ move' = NoMove
    /\ UNCHANGED <<sourceDir, targetDir, files0, dirs0>>

InitPair == Init /\ dryRun

NextPair ==
    \/ WalkDir
    \/ SkipOther
    \/ DuplicateOk
    \/ PlanMoveOk
    \/ MoveAndRenameOk
    \/ Restart

SpecPair == InitPair /\ [][NextPair]_vars

(***************************************************************************)
(* Properties.                                                             *)
(***************************************************************************)
\* the index of the first file hashed to h
FirstWith(h) ==
    CHOOSE i \in 1..Len(hashed) :
        hashed[i].hash = h /\ \A k \in 1..(i - 1) : hashed[k].hash # h

\* a line of that kind was printed for path
Printed(kind, path) == \E l \in 1..Len(out) : out[l].kind = kind /\ out[l].path = path

\* path was moved, or planned to be moved in a dry run
IsPlaced(path) == Printed("moved", path) \/ Printed("dry-run", path)

\* the step hashes a file whose content an earlier file of the run had
DuplicateStep ==
    /\ Len(hashed') = Len(hashed) + 1
    /\ Last(hashed').hash # NoHash
    /\ \E i \in 1..Len(hashed) : hashed[i].hash = Last(hashed').hash

\* Of the files hashed so far with one content, the first was placed and is the
\* only one placed; each later one is reported as a duplicate of the first one's path.
FirstOnlyPlaced ==
    \A j \in 1..Len(hashed) :
        hashed[j].hash # NoHash =>
            LET i == FirstWith(hashed[j].hash)
            IN  IF i = j
                THEN ~Printed("duplicate", hashed[j].path)
                ELSE /\ IsPlaced(hashed[i].path)
                     /\ ~IsPlaced(hashed[j].path)
                     /\ \E l \in 1..Len(out) :
                          out[l] = Line("duplicate", hashed[j].path, hashed[i].path)

\* C1 (as claimed): among the files with one content only the first in walk order
\* is placed; every later one is reported as a duplicate of the first one's
\* source path and, when dry-run is off, is deleted.
C1_FirstPlacedRestDeleted ==
    [][/\ FirstOnlyPlaced'
       /\ DuplicateStep /\ ~dryRun => Last(hashed').path \notin DOMAIN files']_vars

\* C1 (amended): among the files with one content only the first in walk order is
\* placed; every later one is reported as a duplicate of the first one's source
\* path and, when dry-run is off, os.Remove is called on it: the file is deleted,
\* or the failure of os.Remove is printed and the file stays. A dry run changes
\* no file.
C1_FirstPlacedRestRemoved ==
    [][/\ FirstOnlyPlaced'
       /\ DuplicateStep =>
            LET path == Last(hashed').path
            IN  \/ /\ ~dryRun
                   /\ Last(out') = Line("deleted", path, <<>>)
                   /\ files' = Remove(files, path)
                \/ /\ ~dryRun
                   /\ Last(out') = Line("delete-error", path, <<>>)
                   /\ files' = files
                \/ /\ dryRun
                   /\ Last(out').kind = "duplicate"
                   /\ files' = files]_vars

\* a later file with the content of a placed one was reported and deleted
C1_Witness ==
    /\ ~dryRun
    /\ \E j \in 1..Len(hashed) :
         /\ hashed[j].hash # NoHash
         /\ FirstWith(hashed[j].hash) < j
         /\ Printed("deleted", hashed[j].path)
         /\ hashed[j].path \in DOMAIN files0
         /\ hashed[j].path \notin DOMAIN files

\* the contents of the images and videos below the source directory at the start
SourceContents ==
    {files0[p].content : p \in {q \in DOMAIN files0 : IsPrefix(sourceDir, q) /\ Recognised(q)}}

\* the paths below the target directory that hold content c
TargetPaths(c) == {p \in DOMAIN files : IsPrefix(targetDir, p) /\ files[p].content = c}

\* C2: after a run with dry-run off that returns no error, every content that an
\* image or video of the source tree held at the start is at exactly one path
\* below the target directory.
C2_ExactlyOnePlacement ==
    (ret = RetNil /\ ~dryRun) =>
        \A c \in SourceContents : Cardinality(TargetPaths(c)) = 1

\* the hash computed for path in this run
HashOf(path) == hashed[CHOOSE j \in 1..Len(hashed) : hashed[j].path = path].hash

\* the lines that report a placement
PlacedLines == {l \in 1..Len(out) : out[l].kind \in {"moved", "dry-run"}}

\* C3: two placed (or planned) files with distinct content have distinct
\* destination paths.
C3_DistinctDestinations ==
    \A l, m \in PlacedLines :
        HashOf(out[l].path) # HashOf(out[m].path) => out[l].arg # out[m].arg

\* an image and a video with one timestamp string were both placed
C3_Witness ==
    \E l, m \in PlacedLines :
        /\ HashOf(out[l].path) # HashOf(out[m].path)
        /\ isImageFile(Ext(out[l].path)) /\ isVideoFile(Ext(out[m].path))
        /\ \E a, b \in 1..Len(named) :
             /\ named[a].path = out[l].path /\ named[b].path = out[m].path
             /\ named[a].stamp = named[b].stamp

\* the number of names allocated before the n-th with the same timestamp string
EarlierSame(n) == Cardinality({k \in 1..(n - 1) : named[k].stamp = named[n].stamp})

\* a collision index below 100 as %02d prints it
TwoDigits(k) == <<DigitChar[(k \div 10) + 1], DigitChar[(k % 10) + 1]>>

\* C4: for every timestamp string the indices handed out are 0, 1, 2, ... in the
\* order the files are processed; the first file gets the bare name, the k-th
\* later one the suffix -k, zero padded to two digits.
C4_IndicesInOrder ==
    \A n \in 1..Len(named) :
        LET k == EarlierSame(n)
        IN  /\ named[n].counter = k
            /\ named[n].stamp = FormatStamp(named[n].date)
            /\ Last(named[n].newPath) =
                 IF k = 0 THEN named[n].stamp \o Ext(named[n].path)
                 ELSE named[n].stamp \o <<"-">> \o TwoDigits(k) \o Ext(named[n].path)

\* three files got the indices 0, 1 and 2 of one timestamp string
C4_Witness ==
    \E n \in 1..Len(named) : named[n].counter = 2 /\ Printed("moved", named[n].path)

\* C5: a dry run changes nothing in the file system.
C5_DryRunChangesNothing == dryRun => (files = files0 /\ dirs = dirs0)

\* the step allocates a name after getFileDate failed on an image
ImageDateFailStep ==
    /\ Len(named') = Len(named) + 1
    /\ isImageFile(Ext(Last(named').path))
    /\ \E l \in (Len(out) + 1)..Len(out') :
         out'[l] = Line("date-error", Last(named').path, <<>>)

\* C7: an image whose embedded date cannot be read is named with its modification
\* time.
C7_ImageFallsBackToModTime ==
    [][ImageDateFailStep => Last(named').date = files[Last(named').path].mtime]_vars

\* the files that are neither images nor videos
Others == {p \in DOMAIN files0 : Ext(p) \notin ImageExts \cup VideoExts}

\* C8: a file that is neither an image nor a video is never hashed, never
\* recorded in fileHashes, never named, reported, moved, deleted or overwritten.
C8_OthersUntouched ==
    \A p \in Others :
        /\ p \in DOMAIN files /\ files[p] = files0[p]
        /\ \A j \in 1..Len(hashed) : hashed[j].path # p
        /\ \A h \in DOMAIN fileHashes : fileHashes[h] # p
        /\ \A n \in 1..Len(named) : named[n].path # p /\ named[n].newPath # p
        /\ \A l \in 1..Len(out) : out[l].path # p /\ out[l].arg # p

\* a run with dry-run off visited every file, among them one that is neither an
\* image nor a video and lies in a directory a file was moved to
C8_Witness ==
    /\ ret = RetNil /\ ~dryRun
    /\ \E p \in Others :
         /\ IsPrefix(sourceDir, p)
         /\ \E l \in PlacedLines : Front(out[l].arg) = Front(p)

\* calculateFileHash fails in the step
HashFailStep == Len(hashed') = Len(hashed) + 1 /\ Last(hashed').hash = NoHash

\* os.MkdirAll(subDir) fails in the step: a new hash and no name allocated
MkdirFailStep ==
    /\ Len(hashed') = Len(hashed) + 1
    /\ Last(hashed').hash # NoHash
    /\ Last(hashed').hash \notin DOMAIN fileHashes
    /\ named' = named

\* C9: when the hash or the creation of the directory fails, processFiles
\* returns that error; the failing step changes no file, and after it nothing is
\* hashed, moved or deleted: what was transferred stays where it is.
C9_FatalErrorStops ==
    [][/\ HashFailStep => (ret' = "hash" /\ files' = files /\ dirs' = dirs)
       /\ MkdirFailStep => (ret' = "mkdir" /\ files' = files)
       /\ ret \in {"hash", "mkdir"} =>
            UNCHANGED <<files, dirs, hashed, named, out, fileHashes, ret>>]_vars

\* os.MkdirAll failed after a file was moved and before the last file was visited
C9_Witness ==
    /\ ret = "mkdir"
    /\ \E l \in PlacedLines :
         out[l].kind = "moved" /\ out[l].arg \in DOMAIN files
    /\ \E p \in DOMAIN files :
         /\ Recognised(p)
         /\ \A j \in 1..Len(hashed) : hashed[j].path # p
         /\ Front(p) = Last(stack).dir
         /\ \E i \in 2..Len(Last(stack).names) : Last(stack).names[i] = Last(p)

\* the date-error lines the step prints
NewDateErrors == {l \in (Len(out) + 1)..Len(out') : out'[l].kind = "date-error"}

\* the step fails to delete a duplicate
DeleteFailStep == Len(out') > Len(out) /\ Last(out').kind = "delete-error"

\* C10: a failing getFileDate and a failing os.Remove of a duplicate are not
\* returned by processFiles and do not stop the walk; the file whose date
\* failed is named with the current time and, unless os.MkdirAll or moveFile
\* fails, moved (or planned).
C10_DateAndDeleteErrorsGoOn ==
    [][/\ NewDateErrors # {} =>
            /\ ret' \in {Running, RetNil, "mkdir", "move"}
            /\ named' # named => Last(named').date \in NowTimes
            /\ ret' \in {Running, RetNil} =>
                 /\ stack' = Normalise(Rest)
                 /\ Len(named') = Len(named) + 1
                 /\ Last(out') = Line(IF dryRun THEN "dry-run" ELSE "moved",
                                      Last(named').path, Last(named').newPath)
                 /\ Last(Last(named').newPath) =
                      FormatStamp(Last(named').date) \o
                      (IF Last(named').counter = 0 THEN <<>>
                       ELSE <<"-">> \o TwoDigits(Last(named').counter))
                      \o Ext(Last(named').path)
       /\ DeleteFailStep =>
            /\ ret' \in {Running, RetNil}
            /\ stack' = Normalise(Rest)]_vars

\* a run went on to its end after a date could not be read and a duplicate not
\* be deleted; the file without date was moved under the current time
C10_Witness ==
    /\ ret = RetNil
    /\ \E l \in 1..Len(out) : out[l].kind = "delete-error"
    /\ \E l, m \in 1..Len(out) :
         /\ l < m /\ m < Len(out)
         /\ out[l].kind = "date-error"
         /\ out[m].kind = "moved" /\ out[m].path = out[l].path
         /\ \E n \in 1..Len(named) :
              named[n].path = out[l].path /\ named[n].date = TNow

\* the files a run reported as duplicates, each with the file it is a duplicate of
Duplicates(o) == {<<o[l].path, o[l].arg>> : l \in {m \in 1..Len(o) : o[m].kind = "duplicate"}}

\* the files a run placed (or planned to place), each with its destination path
Placements(o) ==
    {<<o[l].path, o[l].arg>> : l \in {m \in 1..Len(o) : o[m].kind \in {"moved", "dry-run"}}}

\* both runs have returned nil, and the date providers gave both the same dates
SameInputsBothDone ==
    /\ run1 # NoRun
    /\ run1.dryRun /\ ~dryRun
    /\ run1.ret = RetNil /\ ret = RetNil
    /\ \A a \in 1..Len(run1.named), b \in 1..Len(named) :
         run1.named[a].path = named[b].path => run1.named[a].date = named[b].date

\* C6: on the same inputs a dry run and a run with dry-run off report the same
\* files as duplicates of the same files and give every placed file the same
\* destination path.
C6_DryRunSameDecisions ==
    SameInputsBothDone =>
        /\ Duplicates(run1.out) = Duplicates(out)
        /\ Placements(run1.out) = Placements(out)

\* (not a claim) the two runs decide the same when the target directory is not
\* the source directory or below it
DryRunSameDecisionsApart ==
    (SameInputsBothDone /\ ~IsPrefix(sourceDir, targetDir)) =>
        /\ Duplicates(run1.out) = Duplicates(out)
        /\ Placements(run1.out) = Placements(out)

\* the handler called moveFile in the step, and copyFile failed
CopyFailStep == move' # NoMove /\ move'.how \in {"open", "copy"}

\* the handler called moveFile in the step, copyFile succeeded and os.Remove of
\* the source failed
RemoveFailStep == move' # NoMove /\ move'.how = "remove"

\* what C11 says of a step
MoveFailureKeepsSource ==
    /\ CopyFailStep =>
         /\ ret' = "move"
         /\ move'.src \in DOMAIN files'
         /\ files'[move'.src] = files[move'.src]
    /\ RemoveFailStep =>
         /\ ret' = "move"
         /\ move'.dest \in DOMAIN files'
         /\ files'[move'.dest].content = files[move'.src].content

\* C11: when os.Rename and then copyFile fail in moveFile, the error is returned
\* and the source file is still there with its content; when copyFile succeeds
\* and os.Remove of the source fails, the error is returned and the destination
\* holds the content of the source.
C11_MoveFailureKeepsSource == [][MoveFailureKeepsSource]_vars

\* (not a claim) the same, for the calls of moveFile whose destination is not the
\* source path
MoveFailureKeepsSourceOther ==
    [][(move' # NoMove /\ move'.src # move'.dest) => MoveFailureKeepsSource]_vars

\* the step allocates a name
NamedStep == Len(named') = Len(named) + 1

\* the suffix of a collision index
IndexSuffix(k) == IF k = 0 THEN <<>> ELSE <<"-">> \o TwoDigits(k)

NewHashStep ==
    /\ Len(hashed') = Len(hashed) + 1
    /\ Last(hashed').hash # NoHash
    /\ Last(hashed').hash \notin DOMAIN fileHashes

\* path is where this run moved the file that was at first
MovedTo(first, path) ==
    \E m \in 1..Len(out) : out[m] = Line("moved", first, path)

\* what C13 says of a step
NeverDuplicateOfItself ==
    /\ NewHashStep =>
         /\ Last(hashed').hash \in DOMAIN fileHashes'
         /\ fileHashes'[Last(hashed').hash] = Last(hashed').path
    /\ DuplicateStep =>
         LET path == Last(hashed').path
             first == fileHashes[Last(hashed').hash]
         IN  first # path /\ ~MovedTo(first, path)

\* C13: the hash of a new file is recorded in fileHashes in the step that hashes
\* it, also when a later statement of the handler fails; and a file that is
\* reported as a duplicate is another file than the one recorded for its hash,
\* never that file met again at the path it was moved to.
C13_NeverDuplicateOfItself == [][NeverDuplicateOfItself]_vars

\* (not a claim) the same, when the target directory is not the source directory
\* or below it
NeverDuplicateOfItselfApart ==
    [][~IsPrefix(sourceDir, targetDir) => NeverDuplicateOfItself]_vars

\* the order in which filepath.Walk visits two paths: by the first element in
\* which they differ
RECURSIVE PathLess(_, _)
PathLess(p, q) ==
    IF q = <<>> THEN FALSE
    ELSE IF p = <<>> THEN TRUE
    ELSE IF Head(p) # Head(q) THEN StrLess(Head(p), Head(q))
    ELSE PathLess(Tail(p), Tail(q))

\* the images and videos below the source directory when the run starts
SourceFiles == {p \in DOMAIN files0 : IsPrefix(sourceDir, p) /\ Recognised(p)}

\* the terminal states of the j-th file hashed
DuplicateSkipped(j) == Printed("duplicate", hashed[j].path)
Transferred(j) == Printed("moved", hashed[j].path)
DryPlanned(j) == Printed("dry-run", hashed[j].path)
Errored(j) == j = Len(hashed) /\ ret \in {"hash", "mkdir", "move"}

\* the number of terminal states the j-th file hashed is in
TerminalStates(j) ==
    (IF DuplicateSkipped(j) THEN 1 ELSE 0) + (IF Transferred(j) THEN 1 ELSE 0)
    + (IF DryPlanned(j) THEN 1 ELSE 0) + (IF Errored(j) THEN 1 ELSE 0)

\* what C14 says of a state
EachFileOnce ==
    /\ \A j \in 1..Len(hashed) :
         /\ hashed[j].path \in SourceFiles
         /\ hashed[j].hash # NoHash => hashed[j].hash = files0[hashed[j].path].content
         /\ TerminalStates(j) = 1
         /\ Transferred(j) => ~dryRun
         /\ DryPlanned(j) => dryRun
    /\ \A i, j \in 1..Len(hashed) : i < j => PathLess(hashed[i].path, hashed[j].path)
    /\ ret = RetNil => {hashed[j].path : j \in 1..Len(hashed)} = SourceFiles
    /\ \A n \in 1..Len(named) :
         /\ named[n].stamp = FormatStamp(named[n].date)
         /\ \E j \in 1..Len(hashed) :
              /\ hashed[j].path = named[n].path
              /\ hashed[j].hash # NoHash
              /\ FirstWith(hashed[j].hash) = j

\* C14: the files the run processes are the images and videos the source tree
\* held at the start, each once and in the order of the walk (all of them when
\* the run returns nil); each ends in exactly one of the states DuplicateSkipped,
\* Transferred, DryPlanned and Errored, Transferred only with dry-run off and
\* DryPlanned only with dry-run on; a file is named only when it was hashed, its
\* hash was new and its date resolved.
C14_EachFileOnce == EachFileOnce

\* (not a claim) the same, when the target directory is not the source directory
\* or below it
EachFileOnceApart == ~IsPrefix(sourceDir, targetDir) => EachFileOnce

\* the hashes computed so far
HashesSeen == {hashed[j].hash : j \in {i \in 1..Len(hashed) : hashed[i].hash # NoHash}}

\* fileHashes maps every hash computed so far to the path of the first file
\* hashed to it
FirstPathsRecorded ==
    /\ DOMAIN fileHashes = HashesSeen
    /\ \A h \in DOMAIN fileHashes : fileHashes[h] = hashed[FirstWith(h)].path

\* C15: in every step, also a failing one, fileHashes keeps every key with the
\* path mapped to it, and after it maps every hash computed so far to the path of
\* the first file that was hashed to it.
C15_SeenHashesGrow ==
    [][/\ \A h \in DOMAIN fileHashes :
            h \in DOMAIN fileHashes' /\ fileHashes'[h] = fileHashes[h]
       /\ FirstPathsRecorded']_vars

\* moveFile failed on the third file hashed, after a file was moved and a second
\* one with its content skipped: fileHashes holds the paths of the first and the
\* third
C15_Witness ==
    /\ ret = "move"
    /\ Len(hashed) = 3
    /\ hashed[1].hash = hashed[2].hash
    /\ hashed[3].hash # hashed[1].hash
    /\ Printed("duplicate", hashed[2].path)
    /\ DOMAIN fileHashes = {hashed[1].hash, hashed[3].hash}
    /\ fileHashes[hashed[1].hash] = hashed[1].path
    /\ fileHashes[hashed[3].hash] = hashed[3].path

\* the step calls calculateFileHash: the handler is at an image or a video
HashStep == Len(hashed') = Len(hashed) + 1

\* the lines processFiles prints in the step
StepLines == SubSeq(out', Len(out) + 1, Len(out'))

\* the lines the step causes: those of processFiles, and the line main prints
\* for the error processFiles returns
LinesCaused == Len(StepLines) + (IF ret' \in {"hash", "mkdir", "move"} THEN 1 ELSE 0)

\* C16 (as claimed): every file that reaches a terminal state causes exactly one
\* line.
C16_OneLinePerFile == [][HashStep => LinesCaused = 1]_vars

\* C16 (amended): a duplicate causes the duplicate line and, with dry-run off, a
\* second line (deleted, or the failure to delete); a new file causes the line of
\* the move (or of the planned move), or, when the run stops at it, the line main
\* prints for the error, and before it a line for the date when getFileDate
\* failed; so every file causes one or two lines, and no line is printed
\* otherwise.
C16_OneOrTwoLinesPerFile ==
    [][/\ SubSeq(out', 1, Len(out)) = out
       /\ ~HashStep => out' = out
       /\ HashStep =>
            LET path == Last(hashed').path
            IN  /\ LinesCaused \in {1, 2}
                /\ DuplicateStep =>
                     LET line == Line("duplicate", path, fileHashes[Last(hashed').hash])
                     IN  IF dryRun THEN StepLines = <<line>>
                         ELSE StepLines \in {<<line, Line("deleted", path, <<>>)>>,
                                             <<line, Line("delete-error", path, <<>>)>>}
                /\ HashFailStep => StepLines = <<>>
                /\ NewHashStep =>
                     /\ StepLines \in
                          {pre \o post :
                             pre \in {<<>>, <<Line("date-error", path, <<>>)>>},
                             post \in {IF ret' \in {"mkdir", "move"} THEN <<>>
                                       ELSE <<Line(IF dryRun THEN "dry-run" ELSE "moved",
                                                   path, Last(named').newPath)>>}}
                     /\ (isImageFile(Ext(path)) /\ ExifOf(files[path].content).err) =>
                          /\ StepLines # <<>>
                          /\ StepLines[1] = Line("date-error", path, <<>>)]_vars

\* a run with dry-run off printed two lines for a duplicate and two lines for a
\* file whose date could not be read, and went on
C16_Witness ==
    /\ ~dryRun /\ ret = RetNil
    /\ \E l \in 1..(Len(out) - 1) :
         out[l].kind = "duplicate" /\ out[l + 1] = Line("deleted", out[l].path, <<>>)
    /\ \E l \in 1..(Len(out) - 1) :
         /\ out[l].kind = "date-error"
         /\ out[l + 1].kind = "moved" /\ out[l + 1].path = out[l].path

\* C17: when the handler calls moveFile(src, dest) with src # dest, there is no
\* file at dest, so that a placement destroys no content.
C17_NeverOverwrites ==
    [][(move' # NoMove /\ move'.src # move'.dest) => move'.dest \notin DOMAIN files]_vars

\* (not a claim) moveFile is not called with the path of a file that this run
\* placed
NeverOverwritesOwn ==
    [][(move' # NoMove /\ move'.src # move'.dest) =>
          \A l \in PlacedLines : out[l].arg # move'.dest]_vars

\* the indices of the files placed (or planned) with timestamp string ts
PlacedIndices(ts) ==
    {named[n].counter : n \in {k \in 1..Len(named) :
                                 named[k].stamp = ts /\ IsPlaced(named[k].path)}}

\* for every timestamp string the indices of the files placed are 0, ..., n - 1
ContiguousIndices ==
    \A m \in 1..Len(named) :
        PlacedIndices(named[m].stamp) = 0..(Cardinality(PlacedIndices(named[m].stamp)) - 1)

\* C18: a step that skips a duplicate changes neither fileHashes nor
\* timestampCounter and allocates no name; for every timestamp string the
\* indices of the files placed (or planned) are 0, ..., n - 1 without a gap.
C18_DuplicatesLeaveNoGap ==
    [][/\ DuplicateStep =>
            /\ fileHashes' = fileHashes
            /\ timestampCounter' = timestampCounter
            /\ named' = named
       /\ ContiguousIndices']_vars

\* two files were placed with the indices 0 and 1 of one timestamp string, and
\* between them a duplicate was skipped
C18_Witness ==
    \E a, b \in 1..Len(named), la, ld, lb \in 1..Len(out) :
        /\ named[a].stamp = named[b].stamp
        /\ named[a].counter = 0 /\ named[b].counter = 1
        /\ la < ld /\ ld < lb
        /\ out[la].kind \in {"moved", "dry-run"} /\ out[la].path = named[a].path
        /\ out[ld].kind = "duplicate"
        /\ out[lb].kind \in {"moved", "dry-run"} /\ out[lb].path = named[b].path

\* the path processFiles gives the file at p when its date can be read and its
\* index is i
OrganisedPath(p, i) ==
    LET d == getFileDate(files0, p, FALSE).date
    IN  SubDir(p, d) \o <<NewFileName(FormatStamp(d), i, Ext(p))>>

\* the source directory is the target directory and holds what an earlier run
\* produced: every image and video is at the path processFiles gave it, the date
\* providers returning now what they returned then
ProducedByEarlierRun ==
    /\ sourceDir = targetDir
    /\ SourceFiles # {}
    /\ \A p \in SourceFiles :
         /\ ~getFileDate(files0, p, FALSE).err
         /\ \E i \in 0..(Cardinality(SourceFiles) - 1) : p = OrganisedPath(p, i)

\* no date provider failed in the run
DatesRead == \A l \in 1..Len(out) : out[l].kind # "date-error"

\* C19: a run with dry-run off on a tree that an earlier run produced, as source
\* and target, in which the dates are read as before and nothing fails in the
\* file system, leaves every file at its path with its content when it has
\* returned.
C19_RerunIdempotent ==
    (ProducedByEarlierRun /\ ~dryRun /\ DatesRead /\ ret = RetNil) =>
        /\ DOMAIN files = DOMAIN files0
        /\ \A p \in DOMAIN files0 : files[p].content = files0[p].content

====
